---- MODULE Spec2Model ----
(***************************************************************************)
(* Navigation and selection subsystem of the 3D cluster visualization:     *)
(* the zustand store (selection, comparison pair, filters, requested       *)
(* camera pose) and the render-loop components CameraController,           *)
(* FlyControls and AutoPilot with the Fly / AutoPilot mode toggles.        *)
(*                                                                         *)
(* Numbers are fixed point, one unit = 1/1000 of a scene unit.  Strings    *)
(* are tuples of one-character strings.                                    *)
(***************************************************************************)
EXTENDS Integers, Sequences, FiniteSets, TLC

VARIABLES
  \* ---- store (lib/store.ts) ----
  terms,          \* AppState.terms: the loaded points
  filters,        \* AppState.filters
  selection,      \* AppState.selection
  comparison,     \* AppState.comparison
  view,           \* AppState.view
  \* ---- ClusterComparisonPopup component state ----
  popup,          \* data, loading, error (useState), cache (useRef) and the compare requests
  \* ---- ClusterVisualization component state ----
  floatMode,      \* useState(false): Fly
  autoPilot,      \* useState(false): AutoPilot
  \* ---- three.js camera ----
  camPos,         \* camera.position
  camRot,         \* camera.quaternion, as <<yaw, pitch>> in quarter turns
  \* ---- CameraController refs ----
  targetRef, isAnimatingRef, lastTargetRef,
  \* ---- FlyControls refs and the DOM it touches ----
  moveState, velocity, isLocked,
  listeners,           \* the event listeners FlyControls has attached
  pointerLockElement,  \* document.pointerLockElement = gl.domElement ?
  \* ---- AutoPilot refs ----
  waypointsRef, progressRef,
  \* ---- render loop ----
  crashed,        \* an effect threw: the React tree is unmounted
  frame,          \* number of frames rendered so far
  wrote,          \* which components' useFrame wrote camera.position in the last frame
  last            \* the last operation performed, <<name, argument...>>

storeVars == <<terms, filters, selection, comparison, view>>
modeVars  == <<floatMode, autoPilot>>
camVars   == <<camPos, camRot>>
ctrlVars  == <<targetRef, isAnimatingRef, lastTargetRef>>
flyVars   == <<moveState, velocity, isLocked, listeners, pointerLockElement>>
tourVars  == <<waypointsRef, progressRef>>
vars == <<storeVars, popup, modeVars, camVars, ctrlVars, flyVars, tourVars, crashed, frame, wrote, last>>

----------------------------------------------------------------------------
\* Bounds of the model

\* how many frames one run renders
MaxFrames == 3

\* how many frames a run with point-set changes renders
MaxTourFrames == 2

\* how many laps of the tour a run of AutoPilot alone follows
MaxLaps == 3

\* how many frames a run of Fly with the forward key held renders
MaxGlideFrames == 52

----------------------------------------------------------------------------
\* Values

\* JavaScript null / undefined for an object-valued field
Null == [null |-> TRUE]

\* a missing (null / undefined / NaN) coordinate, which `v || 0` turns into 0
Missing == 0 - 999999

\* null / undefined for a string-valued field
NoStr == <<"#none">>

\* `v || 0` on a number
OrZero(v) == IF v = Missing \/ v = 0 THEN 0 ELSE v

Max(a, b) == IF a >= b THEN a ELSE b
Min(a, b) == IF a <= b THEN a ELSE b
Abs(a) == IF a < 0 THEN 0 - a ELSE a

\* a * num / den, rounded toward zero
MulDiv(a, num, den) == IF a >= 0 THEN (a * num) \div den ELSE 0 - (((0 - a) * num) \div den)

RECURSIVE SqrtSearch(_, _, _)
SqrtSearch(n, lo, hi) ==
  IF lo >= hi THEN lo
  ELSE LET mid == (lo + hi + 1) \div 2
       IN IF mid * mid <= n THEN SqrtSearch(n, mid, hi) ELSE SqrtSearch(n, lo, mid - 1)

\* Math.sqrt, rounded down
Sqrt(n) == SqrtSearch(n, 0, 46340)

VAdd(a, b) == <<a[1] + b[1], a[2] + b[2], a[3] + b[3]>>
VSub(a, b) == <<a[1] - b[1], a[2] - b[2], a[3] - b[3]>>
VScale(a, num, den) == <<MulDiv(a[1], num, den), MulDiv(a[2], num, den), MulDiv(a[3], num, den)>>
\* squared Euclidean distance, in (1/1000)^2
DistSq(a, b) == LET d == VSub(a, b) IN d[1] * d[1] + d[2] * d[2] + d[3] * d[3]

\* a lerp that steps past the target: alpha = 1 + pct / 100
LerpPastTarget(p, target, pct) == VAdd(p, VScale(VSub(target, p), 100 + pct, 100))

\* Vector3.lerp(target, alpha): this += (target - this) * alpha, alpha = pct / 100
Lerp(p, target, pct) == [k \in 1..3 |-> p[k] + MulDiv(target[k] - p[k], pct, 100)]

----------------------------------------------------------------------------
\* Strings

ToLowerChar(c) ==
  CASE c = "L" -> "l"
    [] c = "E" -> "e"
    [] c = "C" -> "c"
    [] c = "A" -> "a"
    [] OTHER -> c

\* String.prototype.toLowerCase
ToLowerCase(s) == [i \in 1..Len(s) |-> ToLowerChar(s[i])]

\* String.prototype.charCodeAt(0) of a one-character string
CharCode(c) ==
  CASE c = "L" -> 76
    [] c = "E" -> 69
    [] c = "C" -> 67
    [] c = "A" -> 65
    [] c = "l" -> 108
    [] c = "e" -> 101
    [] c = "c" -> 99
    [] c = "a" -> 97
    [] c = "b" -> 98
    [] c = "n" -> 110
    [] c = "o" -> 111
    [] c = "_" -> 95
    [] c = " " -> 32
    [] OTHER -> 35

\* String.prototype.includes
Includes(s, q) ==
  \E i \in 0..(Len(s) - Len(q)) : \A j \in 1..Len(q) : s[i + j] = q[j]

\* subcategory.replace(/_/g, ' ')
ReplaceUnderscores(s) == [i \in 1..Len(s) |-> IF s[i] = "_" THEN " " ELSE s[i]]

RECURSIVE SumCodes(_, _)
SumCodes(s, i) == IF i > Len(s) THEN 0 ELSE CharCode(s[i]) + SumCodes(s, i + 1)

\* label.split('').reduce((a, c) => a + c.charCodeAt(0), 0)
LabelHash(s) == SumCodes(s, 1)

----------------------------------------------------------------------------
\* Data the collaborators can deliver

Cluster(i, x, y, z) == [id |-> i, x |-> x, y |-> y, z |-> z]

G1 == Cluster(1, 2000, 0, 0 - 1000)
G2 == Cluster(2, 0 - 3000, 1000, 2000)
G3 == Cluster(3, 0, 0 - 2000, Missing)
\* cluster 1 as delivered by a later reload: same id, another object
G1b == Cluster(1, 2500, 0, 0 - 1000)

\* a cluster whose focus position is 0.1 from the camera's initial position
G4 == Cluster(4, 100, 5000, 13000)

ClusterPool == {G1, G2, G3, G1b}

Term(i, name, cat, sub, x, y, z, cid) ==
  [id |-> i, term |-> name, category |-> cat, subcategory |-> sub,
   x |-> x, y |-> y, z |-> z, clusterId |-> cid]

CatLe == <<"L", "e">>
CatCa == <<"c", "a">>
SubAB == <<"a", "_", "b">>

T1 == Term(1, <<"a", "l", "l">>, CatLe, SubAB, 1000, 1000, 1000, 1)
T2 == Term(2, <<"c", "l", "l">>, CatLe, NoStr, 3000, 1000, 1000, 1)
T3 == Term(3, <<"b", "c">>, CatCa, SubAB, 0, 0, 0, 2)
T4 == Term(4, <<"n", "b">>, CatCa, NoStr, 0 - 2000, 2000, 0, 2)
T5 == Term(5, <<"o", "c">>, CatCa, NoStr, 0, 0 - 3000, 1000, 0)

T6 == Term(6, <<"a", "b">>, CatCa, NoStr, 4000, 0, 0 - 3000, 0)
T7 == Term(7, <<"b", "b">>, CatCa, NoStr, 0 - 1000, 0 - 1000, 4000, 0)
T8 == Term(8, <<"c", "b">>, CatCa, NoStr, 2000, 3000, 2000, 0)

\* eight points: enough for a tour
Data8 == <<T1, T2, T3, T4, T5, T6, T7, T8>>
\* five points, two of them in category "Le"
Data5 == <<T1, T2, T3, T4, T5>>
\* three points, the only one in category "ca" at the origin
Data3 == <<T1, T2, T3>>
\* two points only
Data2 == <<T1, T4>>

----------------------------------------------------------------------------
\* Store: initial values (store.ts, initialFilters .. initialView)

initialFilters ==
  [category |-> NoStr, clusterId |-> 0, searchQuery |-> <<>>, geoCode |-> "US"]

initialSelection ==
  [selectedCluster |-> Null, selectedTerm |-> Null, hoveredTerm |-> Null]

initialComparison == [clusterA |-> Null, clusterB |-> Null]

\* ClusterComparisonPopup as first rendered: no data, not loading, no error,
\* an empty cache, no request under way and none cancelled
initialPopup ==
  [data |-> Null, loading |-> FALSE, error |-> Null, cache |-> {},
   request |-> Null, superseded |-> FALSE]

initialView ==
  [cameraPosition |-> <<0, 0, 15000>>, cameraTarget |-> <<0, 0, 0>>, showLabels |-> TRUE]

\* cluster?.id : undefined (here 0, no cluster has id 0) when the cluster is null
IdOf(c) == IF c = Null THEN 0 ELSE c.id

\* [cluster.x || 0, cluster.y || 0, cluster.z || 0]
ClusterTarget(cluster) == <<OrZero(cluster.x), OrZero(cluster.y), OrZero(cluster.z)>>
\* [cluster.x || 0, cluster.y || 0, (cluster.z || 0) + 5]
ClusterCameraPosition(cluster) == <<OrZero(cluster.x), OrZero(cluster.y), OrZero(cluster.z) + 5000>>
\* [term.x || 0, term.y || 0, term.z || 0]
TermTarget(term) == <<OrZero(term.x), OrZero(term.y), OrZero(term.z)>>
\* [term.x || 0, (term.y || 0) + 1, (term.z || 0) + 4]
TermCameraPosition(term) == <<OrZero(term.x), OrZero(term.y) + 1000, OrZero(term.z) + 4000>>

----------------------------------------------------------------------------
\* Scene: the filtered point set handed to AutoPilot (useMemo `terms`)

Truthy(str) == str # NoStr /\ str # <<>>

FilterBySearch(ts, f) ==
  IF Truthy(f.searchQuery)
  THEN LET query == ToLowerCase(f.searchQuery)
       IN SelectSeq(ts, LAMBDA t : \/ Includes(ToLowerCase(t.term), query)
                                   \/ (Truthy(t.category) /\ Includes(ToLowerCase(t.category), query)))
  ELSE ts

FilterByCategory(ts, f) ==
  IF Truthy(f.category)
  THEN SelectSeq(ts, LAMBDA t : t.category # NoStr /\ ToLowerCase(t.category) = ToLowerCase(f.category))
  ELSE ts

FilterByCluster(ts, f) ==
  IF f.clusterId # 0
  THEN SelectSeq(ts, LAMBDA t : t.clusterId = f.clusterId)
  ELSE ts

FilteredTerms(allTerms, f) == FilterByCluster(FilterByCategory(FilterBySearch(allTerms, f), f), f)

----------------------------------------------------------------------------
\* AutoPilot: waypoint generation (useEffect on [terms])

\* Math.min(12, Math.max(8, Math.floor(terms.length / 10)))
NumWaypoints(n) == Min(12, Max(8, n \div 10))

RECURSIVE SumAxis(_, _, _)
SumAxis(ts, k, i) == IF i > Len(ts) THEN 0 ELSE TermTarget(ts[i])[k] + SumAxis(ts, k, i + 1)

MinAxis(ts, k) == CHOOSE v \in {ts[i][k] : i \in 1..Len(ts)} : \A j \in 1..Len(ts) : v <= ts[j][k]
MaxAxis(ts, k) == CHOOSE v \in {ts[i][k] : i \in 1..Len(ts)} : \A j \in 1..Len(ts) : v >= ts[j][k]

\* the outcomes of Math.random() the model draws from, in 1/1000
RandomPool == {0, 999}

\* [...terms].sort(() => Math.random() - 0.5): the orders the model draws from
Shuffled(ts, reversed) == IF reversed THEN [i \in 1..Len(ts) |-> ts[Len(ts) + 1 - i]] ELSE ts

\* the waypoint placed near one point: the point plus a random offset
DiveWaypoint(term, r) ==
  <<term.x + MulDiv(r - 500, 15, 10), term.y + MulDiv(r - 500, 15, 10) + 500, term.z + r * 2 + 1000>>

\* the list built by the effect for a point set of at least NumWaypoints points
GenWaypoints(ts, reversed, r) ==
  LET center == <<MulDiv(SumAxis(ts, 1, 1), 1, Len(ts)), MulDiv(SumAxis(ts, 2, 1), 1, Len(ts)),
                  MulDiv(SumAxis(ts, 3, 1), 1, Len(ts))>>
      pts == [i \in 1..Len(ts) |-> <<ts[i].x, ts[i].y, ts[i].z>>]
      shuffled == Shuffled(ts, reversed)
      dives == [i \in 1..NumWaypoints(Len(ts)) |-> DiveWaypoint(shuffled[i], r)]
  IN  <<<<center[1], center[2] + 3000, center[3] + 12000>>>>
      \o dives
      \o << <<MinAxis(pts, 1) - 1000, center[2] + 2000, MaxAxis(pts, 3) + 3000>>,
            <<MaxAxis(pts, 1) + 1000, MaxAxis(pts, 2) + 1000, center[3]>>,
            <<center[1], MinAxis(pts, 2) - 1000, MinAxis(pts, 3) - 2000>>,
            <<center[1] + 5000, center[2] + 5000, center[3] + 15000>> >>

----------------------------------------------------------------------------
\* Effects run by React after a render.  They read the props of the new
\* render, i.e. the primed store and mode variables.

FlyListeners == {"keydown", "keyup", "mousemove", "pointerlockchange", "click"}

\* CameraController.useEffect with deps [view.cameraPosition] only: it does
\* not run again when the mode is left
CameraControllerEffectStale ==
  IF /\ ~crashed /\ ~(floatMode' \/ autoPilot')
     /\ view'.cameraPosition # view.cameraPosition
     /\ view'.cameraPosition # lastTargetRef
  THEN /\ targetRef' = view'.cameraPosition
       /\ isAnimatingRef' = TRUE
       /\ lastTargetRef' = view'.cameraPosition
  ELSE UNCHANGED ctrlVars

\* CameraController.useEffect that ignores a request while an animation runs
CameraControllerEffectBusy ==
  IF /\ ~crashed /\ ~(floatMode' \/ autoPilot')
     /\ view'.cameraPosition # lastTargetRef
     /\ ~isAnimatingRef
  THEN /\ targetRef' = view'.cameraPosition
       /\ isAnimatingRef' = TRUE
       /\ lastTargetRef' = view'.cameraPosition
  ELSE UNCHANGED ctrlVars

\* CameraController.useEffect, deps [view.cameraPosition, floatMode]
CameraControllerEffect ==
  IF ~crashed /\ ~(floatMode' \/ autoPilot') /\ view'.cameraPosition # lastTargetRef
  THEN /\ targetRef' = view'.cameraPosition
       /\ isAnimatingRef' = TRUE
       /\ lastTargetRef' = view'.cameraPosition
  ELSE UNCHANGED ctrlVars

\* AutoPilot.useEffect that also empties the list when AutoPilot is left
AutoPilotEffectClearsOnExit(termsChanged) ==
  LET ts == FilteredTerms(terms', filters')
  IN  IF autoPilot /\ ~autoPilot'
      THEN /\ waypointsRef' = <<>>
           /\ UNCHANGED <<progressRef, crashed>>
      ELSE IF crashed \/ ~termsChanged \/ Len(ts) < 3
      THEN UNCHANGED <<tourVars, crashed>>
      ELSE IF Len(ts) < NumWaypoints(Len(ts))
      THEN /\ crashed' = TRUE
           /\ UNCHANGED tourVars
      ELSE /\ \E reversed \in BOOLEAN, r \in RandomPool :
                waypointsRef' = GenWaypoints(ts, reversed, r)
           /\ progressRef' = 0
           /\ crashed' = FALSE

\* AutoPilot.useEffect, deps [terms]; termsChanged: the memoised filtered
\* list was recomputed.  shuffled[i] is undefined for i >= terms.length, and
\* reading term.x of it throws.
AutoPilotEffect(termsChanged) ==
  LET ts == FilteredTerms(terms', filters')
  IN  IF crashed \/ ~termsChanged \/ Len(ts) < 3
      THEN UNCHANGED <<tourVars, crashed>>
      ELSE IF Len(ts) < NumWaypoints(Len(ts))
      THEN /\ crashed' = TRUE
           /\ UNCHANGED tourVars
      ELSE /\ \E reversed \in BOOLEAN, r \in RandomPool :
                waypointsRef' = GenWaypoints(ts, reversed, r)
           /\ progressRef' = 0
           /\ crashed' = FALSE

\* FlyControls.useEffect whose cleanup forgets the keydown listener
FlyControlsEffectLeaky ==
  IF crashed THEN UNCHANGED <<listeners, pointerLockElement>>
  ELSE IF crashed'
  THEN /\ listeners' = {}
       /\ pointerLockElement' = IF floatMode THEN FALSE ELSE pointerLockElement
  ELSE IF floatMode' = floatMode THEN UNCHANGED <<listeners, pointerLockElement>>
  ELSE /\ listeners' = IF floatMode' THEN FlyListeners ELSE {"keydown"}
       /\ pointerLockElement' = IF floatMode THEN FALSE ELSE pointerLockElement

\* FlyControls.useEffect, deps [enabled, camera, gl]: the cleanup of the old
\* render's effect, then the new render's effect.  Unmounting the tree runs
\* the cleanup too.
FlyControlsEffect ==
  IF crashed THEN UNCHANGED <<listeners, pointerLockElement>>
  ELSE IF crashed'
  THEN /\ listeners' = {}
       /\ pointerLockElement' = IF floatMode THEN FALSE ELSE pointerLockElement
  ELSE IF floatMode' = floatMode THEN UNCHANGED <<listeners, pointerLockElement>>
  ELSE /\ listeners' = IF floatMode' THEN FlyListeners ELSE {}
       /\ pointerLockElement' = IF floatMode THEN FALSE ELSE pointerLockElement

\* `${clusterA.id}-${clusterB.id}`, the cache key and the pair a request is for
PairKey(cmp) == <<IdOf(cmp.clusterA), IdOf(cmp.clusterB)>>

\* ClusterComparisonPopup's auto-fetch effect, deps [clusterA, clusterB]: the
\* cleanup of the old render's effect (cancelled = true for its request), then
\* the new render's effect
PopupEffect ==
  IF crashed \/ crashed'
     \/ (comparison'.clusterA = comparison.clusterA /\ comparison'.clusterB = comparison.clusterB)
  THEN UNCHANGED popup
  ELSE LET cleaned == IF popup.request = Null THEN popup
                      ELSE [popup EXCEPT !.request = Null, !.superseded = TRUE]
       IN  IF comparison'.clusterA = Null \/ comparison'.clusterB = Null
           THEN popup' = [cleaned EXCEPT !.data = Null, !.error = Null]
           ELSE IF PairKey(comparison') \in popup.cache
           THEN popup' = [cleaned EXCEPT !.data = PairKey(comparison')]
           ELSE popup' = [cleaned EXCEPT !.loading = TRUE, !.error = Null,
                                         !.request = PairKey(comparison')]

Effects(termsChanged) ==
  /\ CameraControllerEffect
  /\ AutoPilotEffect(termsChanged)
  /\ FlyControlsEffect
  /\ PopupEffect

\* the filtered list is recomputed when one of its useMemo deps changed
FilterDepsChanged ==
  \/ filters'.searchQuery # filters.searchQuery
  \/ filters'.category # filters.category
  \/ filters'.clusterId # filters.clusterId

\* what a store action leaves alone outside the store
StoreFrame ==
  /\ UNCHANGED <<modeVars, camVars, moveState, velocity, isLocked, frame, wrote>>
  /\ Effects(FilterDepsChanged)

----------------------------------------------------------------------------
\* Store actions (lib/store.ts)

setData(data) ==
  /\ terms' = data
  /\ UNCHANGED <<filters, selection, comparison, view>>
  /\ last' = <<"setData">>
  /\ UNCHANGED <<modeVars, camVars, moveState, velocity, isLocked, frame, wrote>>
  /\ Effects(TRUE)

setFilter(key, value) ==
  /\ filters' = [filters EXCEPT ![key] = value]
  /\ UNCHANGED <<terms, selection, comparison, view>>
  /\ last' = <<"setFilter", key>>
  /\ StoreFrame

resetFilters ==
  /\ filters' = initialFilters
  /\ UNCHANGED <<terms, selection, comparison, view>>
  /\ last' = <<"resetFilters">>
  /\ StoreFrame

selectCluster(cluster) ==
  /\ selection' = [selection EXCEPT !.selectedCluster = cluster, !.selectedTerm = Null]
  /\ UNCHANGED <<terms, filters, comparison, view>>
  /\ last' = <<"selectCluster", cluster>>
  /\ StoreFrame

selectTerm(term) ==
  /\ selection' = [selection EXCEPT !.selectedTerm = term]
  /\ UNCHANGED <<terms, filters, comparison, view>>
  /\ last' = <<"selectTerm", term>>
  /\ StoreFrame

\* setHoveredTerm that also selects the hovered point
setHoveredTermSelects(term) ==
  /\ selection' = [selection EXCEPT !.hoveredTerm = term, !.selectedTerm = term]
  /\ UNCHANGED <<terms, filters, comparison, view>>
  /\ last' = <<"setHoveredTerm", term>>
  /\ StoreFrame

setHoveredTerm(term) ==
  /\ selection' = [selection EXCEPT !.hoveredTerm = term]
  /\ UNCHANGED <<terms, filters, comparison, view>>
  /\ last' = <<"setHoveredTerm", term>>
  /\ StoreFrame

\* NextComparison comparing the cluster objects instead of their ids
NextComparisonByIdentity(cmp, cluster) ==
  IF cmp.clusterA = cluster THEN initialComparison
  ELSE IF cmp.clusterB = cluster THEN [cmp EXCEPT !.clusterB = Null]
  ELSE IF cmp.clusterA = Null THEN [clusterA |-> cluster, clusterB |-> Null]
  ELSE [cmp EXCEPT !.clusterB = cluster]

\* NextComparison without the "click A again" rule
NextComparisonNoClear(cmp, cluster) ==
  IF IdOf(cmp.clusterB) = cluster.id THEN [cmp EXCEPT !.clusterB = Null]
  ELSE IF cmp.clusterA = Null THEN [clusterA |-> cluster, clusterB |-> Null]
  ELSE [cmp EXCEPT !.clusterB = cluster]

\* NextComparison where a click on A again removes A and keeps B
NextComparisonClearsOnlyA(cmp, cluster) ==
  IF IdOf(cmp.clusterA) = cluster.id THEN [cmp EXCEPT !.clusterA = Null]
  ELSE IF IdOf(cmp.clusterB) = cluster.id THEN [cmp EXCEPT !.clusterB = Null]
  ELSE IF cmp.clusterA = Null THEN [clusterA |-> cluster, clusterB |-> Null]
  ELSE [cmp EXCEPT !.clusterB = cluster]

\* the comparison pair after a click on `cluster`
NextComparison(cmp, cluster) ==
  IF IdOf(cmp.clusterA) = cluster.id THEN initialComparison
  ELSE IF IdOf(cmp.clusterB) = cluster.id THEN [cmp EXCEPT !.clusterB = Null]
  ELSE IF cmp.clusterA = Null THEN [clusterA |-> cluster, clusterB |-> Null]
  ELSE [cmp EXCEPT !.clusterB = cluster]

\* setComparisonCluster returning from the "click A again" branch without selectionAndView
setComparisonClusterBareClear(cluster) ==
  /\ comparison' = NextComparison(comparison, cluster)
  /\ IF IdOf(comparison.clusterA) = cluster.id
     THEN UNCHANGED <<selection, view>>
     ELSE /\ selection' = [selection EXCEPT !.selectedCluster = cluster, !.selectedTerm = Null]
          /\ view' = [view EXCEPT !.cameraTarget = ClusterTarget(cluster),
                                  !.cameraPosition = ClusterCameraPosition(cluster)]
  /\ UNCHANGED <<terms, filters>>
  /\ last' = <<"setComparisonCluster", cluster>>
  /\ StoreFrame

setComparisonCluster(cluster) ==
  /\ comparison' = NextComparison(comparison, cluster)
  /\ selection' = [selection EXCEPT !.selectedCluster = cluster, !.selectedTerm = Null]
  /\ view' = [view EXCEPT !.cameraTarget = ClusterTarget(cluster),
                          !.cameraPosition = ClusterCameraPosition(cluster)]
  /\ UNCHANGED <<terms, filters>>
  /\ last' = <<"setComparisonCluster", cluster>>
  /\ StoreFrame

\* clearComparison resetting the selection as well
clearComparisonAndSelection ==
  /\ comparison' = initialComparison
  /\ selection' = initialSelection
  /\ UNCHANGED <<terms, filters, view>>
  /\ last' = <<"clearComparison">>
  /\ StoreFrame

clearComparison ==
  /\ comparison' = initialComparison
  /\ UNCHANGED <<terms, filters, selection, view>>
  /\ last' = <<"clearComparison">>
  /\ StoreFrame

setView(key, value) ==
  /\ view' = [view EXCEPT ![key] = value]
  /\ UNCHANGED <<terms, filters, selection, comparison>>
  /\ last' = <<"setView", key>>
  /\ StoreFrame

focusOnCluster(cluster) ==
  /\ view' = [view EXCEPT !.cameraTarget = ClusterTarget(cluster),
                          !.cameraPosition = ClusterCameraPosition(cluster)]
  /\ UNCHANGED <<terms, filters, selection, comparison>>
  /\ last' = <<"focusOnCluster", cluster>>
  /\ StoreFrame

focusOnTerm(term) ==
  /\ view' = [view EXCEPT !.cameraTarget = TermTarget(term),
                          !.cameraPosition = TermCameraPosition(term)]
  /\ UNCHANGED <<terms, filters, selection, comparison>>
  /\ last' = <<"focusOnTerm", term>>
  /\ StoreFrame

selectAndFocusTerm(term) ==
  /\ selection' = [selection EXCEPT !.selectedTerm = term, !.selectedCluster = Null]
  /\ view' = [view EXCEPT !.cameraTarget = TermTarget(term),
                          !.cameraPosition = TermCameraPosition(term)]
  /\ UNCHANGED <<terms, filters, comparison>>
  /\ last' = <<"selectAndFocusTerm", term>>
  /\ StoreFrame

selectAndFocusCluster(cluster) ==
  /\ selection' = [selection EXCEPT !.selectedCluster = cluster, !.selectedTerm = Null]
  /\ filters' = [filters EXCEPT !.clusterId = cluster.id]
  /\ view' = [view EXCEPT !.cameraTarget = ClusterTarget(cluster),
                          !.cameraPosition = ClusterCameraPosition(cluster)]
  /\ UNCHANGED <<terms, comparison>>
  /\ last' = <<"selectAndFocusCluster", cluster>>
  /\ StoreFrame

\* the points a label matches: exactly, else ignoring case
MatchingTerms(ts, field, label) ==
  LET exact == SelectSeq(ts, LAMBDA t : t[field] = label)
  IN  IF Len(exact) # 0 THEN exact
      ELSE SelectSeq(ts, LAMBDA t : t[field] # NoStr /\ ToLowerCase(t[field]) = ToLowerCase(label))

\* validTerms without the filter on (0,0,0)
ValidTermsUnfiltered(matching) == matching

\* the matching points used for the centre: those off (0,0,0), or all of them
ValidTerms(matching) ==
  LET termsWithCoords == SelectSeq(matching, LAMBDA t : t.x # 0 \/ t.y # 0 \/ t.z # 0)
  IN  IF Len(termsWithCoords) > 0 THEN termsWithCoords ELSE matching

\* [centerX, centerY, centerZ]
FocusCenter(validTerms) ==
  <<MulDiv(SumAxis(validTerms, 1, 1), 1, Len(validTerms)),
    MulDiv(SumAxis(validTerms, 2, 1), 1, Len(validTerms)),
    MulDiv(SumAxis(validTerms, 3, 1), 1, Len(validTerms))>>

RECURSIVE MaxDistFrom(_, _, _)
MaxDistFrom(validTerms, center, i) ==
  IF i > Len(validTerms) THEN 0
  ELSE Max(Sqrt(DistSq(TermTarget(validTerms[i]), center)), MaxDistFrom(validTerms, center, i + 1))

\* Math.max(maxDist * 1.5, floor)
ZoomDistance(validTerms, floor) ==
  Max(MulDiv(MaxDistFrom(validTerms, FocusCenter(validTerms), 1), 15, 10), floor)

\* the camera position requested for a label focus
FocusCameraPosition(validTerms, label, floor) ==
  LET center == FocusCenter(validTerms)
      zoomDistance == ZoomDistance(validTerms, floor)
      hash == LabelHash(label)
      offsetX == (hash % 10) * 300 - 1500
      offsetY == ((hash * 7) % 10) * 300 - 1500
  IN  <<center[1] + offsetX, center[2] + MulDiv(zoomDistance, 3, 10) + offsetY, center[3] + zoomDistance>>

\* focusOnCategory clearing the selection also when no point matches
focusOnCategoryAlwaysDeselects(category) ==
  LET categoryTerms == MatchingTerms(terms, "category", category)
  IN  /\ IF Len(categoryTerms) = 0
         THEN /\ filters' = [filters EXCEPT !.category = category]
              /\ selection' = [selection EXCEPT !.selectedCluster = Null, !.selectedTerm = Null]
              /\ UNCHANGED view
         ELSE /\ filters' = [filters EXCEPT !.category = category]
              /\ selection' = [selection EXCEPT !.selectedCluster = Null, !.selectedTerm = Null]
              /\ view' = [view EXCEPT
                            !.cameraTarget = FocusCenter(ValidTerms(categoryTerms)),
                            !.cameraPosition = FocusCameraPosition(ValidTerms(categoryTerms), category, 5000)]
      /\ UNCHANGED <<terms, comparison>>
      /\ last' = <<"focusOnCategory", category>>
      /\ StoreFrame

focusOnCategory(category) ==
  LET categoryTerms == MatchingTerms(terms, "category", category)
  IN  /\ IF Len(categoryTerms) = 0
         THEN /\ filters' = [filters EXCEPT !.category = category]
              /\ UNCHANGED <<selection, view>>
         ELSE /\ filters' = [filters EXCEPT !.category = category]
              /\ selection' = [selection EXCEPT !.selectedCluster = Null, !.selectedTerm = Null]
              /\ view' = [view EXCEPT
                            !.cameraTarget = FocusCenter(ValidTerms(categoryTerms)),
                            !.cameraPosition = FocusCameraPosition(ValidTerms(categoryTerms), category, 5000)]
      /\ UNCHANGED <<terms, comparison>>
      /\ last' = <<"focusOnCategory", category>>
      /\ StoreFrame

focusOnSubcategory(subcategory) ==
  LET displayName == ReplaceUnderscores(subcategory)
      subTerms == MatchingTerms(terms, "subcategory", subcategory)
  IN  /\ IF Len(subTerms) = 0
         THEN /\ filters' = [filters EXCEPT !.searchQuery = displayName]
              /\ UNCHANGED <<selection, view>>
         ELSE /\ filters' = [filters EXCEPT !.searchQuery = displayName]
              /\ selection' = [selection EXCEPT !.selectedCluster = Null, !.selectedTerm = Null]
              /\ view' = [view EXCEPT
                            !.cameraTarget = FocusCenter(ValidTerms(subTerms)),
                            !.cameraPosition = FocusCameraPosition(ValidTerms(subTerms), subcategory, 3000)]
      /\ UNCHANGED <<terms, comparison>>
      /\ last' = <<"focusOnSubcategory", subcategory>>
      /\ StoreFrame

resetCamera ==
  /\ view' = [view EXCEPT !.cameraPosition = initialView.cameraPosition,
                          !.cameraTarget = initialView.cameraTarget]
  /\ UNCHANGED <<terms, filters, selection, comparison>>
  /\ last' = <<"resetCamera">>
  /\ StoreFrame

\* resetView keeping the current selection
resetViewKeepSelection ==
  /\ comparison' = initialComparison
  /\ filters' = [initialFilters EXCEPT !.geoCode = filters.geoCode]
  /\ view' = [view EXCEPT !.cameraPosition = initialView.cameraPosition,
                          !.cameraTarget = initialView.cameraTarget]
  /\ UNCHANGED <<terms, selection>>
  /\ last' = <<"resetView">>
  /\ StoreFrame

resetView ==
  /\ selection' = initialSelection
  /\ comparison' = initialComparison
  /\ filters' = [initialFilters EXCEPT !.geoCode = filters.geoCode]
  /\ view' = [view EXCEPT !.cameraPosition = initialView.cameraPosition,
                          !.cameraTarget = initialView.cameraTarget]
  /\ UNCHANGED terms
  /\ last' = <<"resetView">>
  /\ StoreFrame

\* ClusterComparisonPopup.dismiss, from the popup's close button; the popup
\* renders only while both clusters are set
dismiss ==
  /\ comparison.clusterA # Null /\ comparison.clusterB # Null
  /\ comparison' = initialComparison
  /\ UNCHANGED <<terms, filters, selection, view>>
  /\ last' = <<"dismiss">>
  /\ StoreFrame

\* the keydown handler without the test that both clusters are chosen
onKeyEscapeUnguarded ==
  /\ comparison' = initialComparison
  /\ UNCHANGED <<terms, filters, selection, view>>
  /\ last' = <<"onKeyEscape", comparison.clusterA # Null /\ comparison.clusterB # Null>>
  /\ StoreFrame

\* ClusterComparisonPopup: the window keydown handler, on Escape
onKeyEscape ==
  /\ IF comparison.clusterA # Null /\ comparison.clusterB # Null
     THEN comparison' = initialComparison
     ELSE UNCHANGED comparison
  /\ UNCHANGED <<terms, filters, selection, view>>
  /\ last' = <<"onKeyEscape", comparison.clusterA # Null /\ comparison.clusterB # Null>>
  /\ StoreFrame

\* compareClusterPair resolved: the .then and .finally callbacks of the request;
\* `cancelled` is the flag of the effect run that made the request
compareResolved(cancelled) ==
  /\ ~crashed
  /\ IF cancelled
     THEN /\ popup.superseded
          /\ UNCHANGED popup
     ELSE /\ popup.request # Null
          /\ popup' = [popup EXCEPT !.cache = @ \cup {popup.request},
                                    !.data = popup.request,
                                    !.loading = FALSE,
                                    !.request = Null]
  /\ UNCHANGED <<storeVars, modeVars, camVars, ctrlVars, flyVars, tourVars, crashed, frame, wrote>>
  /\ last' = <<"compareResolved", cancelled>>

\* compareClusterPair rejected: the .catch and .finally callbacks of the request
compareRejected(cancelled) ==
  /\ ~crashed
  /\ IF cancelled
     THEN /\ popup.superseded
          /\ UNCHANGED popup
     ELSE /\ popup.request # Null
          /\ popup' = [popup EXCEPT !.error = popup.request,
                                    !.loading = FALSE,
                                    !.request = Null]
  /\ UNCHANGED <<storeVars, modeVars, camVars, ctrlVars, flyVars, tourVars, crashed, frame, wrote>>
  /\ last' = <<"compareRejected", cancelled>>

\* the popup renders (does not return null)
PopupRendered == ~crashed /\ comparison.clusterA # Null /\ comparison.clusterB # Null

\* showSkeleton = loading && !data
showSkeleton == popup.loading /\ popup.data = Null

\* the pair whose error message the body shows, or Null
ShownError ==
  IF PopupRendered /\ ~showSkeleton /\ popup.error # Null THEN popup.error ELSE Null

\* the pair whose comparison result the body shows, or Null
ShownData ==
  IF PopupRendered /\ ~showSkeleton /\ popup.error = Null /\ popup.data # Null
  THEN popup.data ELSE Null

----------------------------------------------------------------------------
\* Initial state: the store as created, the components as first mounted

Init ==
  /\ terms = <<>>
  /\ filters = initialFilters
  /\ selection = initialSelection
  /\ comparison = initialComparison
  /\ view = initialView
  /\ popup = initialPopup
  /\ floatMode = FALSE
  /\ autoPilot = FALSE
  /\ camPos = <<0, 5000, 18000>>
  /\ camRot = <<0, 0>>
  /\ targetRef = initialView.cameraPosition
  /\ isAnimatingRef = FALSE
  /\ lastTargetRef = initialView.cameraPosition
  /\ moveState = [forward |-> FALSE, backward |-> FALSE, left |-> FALSE,
                  right |-> FALSE, up |-> FALSE, down |-> FALSE]
  /\ velocity = <<0, 0, 0>>
  /\ isLocked = FALSE
  /\ listeners = {}
  /\ pointerLockElement = FALSE
  /\ waypointsRef = <<>>
  /\ progressRef = 0
  /\ crashed = FALSE
  /\ frame = 0
  /\ wrote = {}
  /\ last = <<"init">>

\* The store driven through its selection, comparison and focus interface
NextStore ==
  \/ \E cluster \in ClusterPool \cup {Null} : selectCluster(cluster)
  \/ \E term \in {T1, Null} : selectTerm(term)
  \/ \E term \in {T3, Null} : setHoveredTerm(term)
  \/ \E cluster \in ClusterPool : setComparisonCluster(cluster)
  \/ clearComparison
  \/ focusOnCluster(G2)
  \/ focusOnTerm(T1)
  \/ selectAndFocusTerm(T1)
  \/ \E cluster \in {G1, G3} : selectAndFocusCluster(cluster)
  \/ resetFilters
  \/ resetCamera
  \/ resetView
  \/ dismiss
  \/ onKeyEscape

SpecStore == Init /\ [][NextStore]_vars

----------------------------------------------------------------------------
\* ClusterVisualization: the mode toggles

\* toggleFloatMode without the setAutoPilot(false)
toggleFloatModeOnly ==
  /\ ~crashed
  /\ floatMode' = ~floatMode
  /\ UNCHANGED autoPilot
  /\ UNCHANGED <<storeVars, camVars, moveState, velocity, isLocked, frame, wrote>>
  /\ last' = <<"toggleFloatMode">>
  /\ Effects(FALSE)

toggleFloatMode ==
  /\ ~crashed
  /\ floatMode' = ~floatMode
  /\ autoPilot' = FALSE
  /\ UNCHANGED <<storeVars, camVars, moveState, velocity, isLocked, frame, wrote>>
  /\ last' = <<"toggleFloatMode">>
  /\ Effects(FALSE)

\* toggleAutoPilot that only switches AutoPilot on
toggleAutoPilotSticky ==
  /\ ~crashed
  /\ autoPilot' = TRUE
  /\ floatMode' = FALSE
  /\ UNCHANGED <<storeVars, camVars, moveState, velocity, isLocked, frame, wrote>>
  /\ last' = <<"toggleAutoPilot">>
  /\ Effects(FALSE)

toggleAutoPilot ==
  /\ ~crashed
  /\ autoPilot' = ~autoPilot
  /\ floatMode' = FALSE
  /\ UNCHANGED <<storeVars, camVars, moveState, velocity, isLocked, frame, wrote>>
  /\ last' = <<"toggleAutoPilot">>
  /\ Effects(FALSE)

\* <OrbitControls> is mounted
OrbitControlsMounted == ~floatMode /\ ~autoPilot

----------------------------------------------------------------------------
\* FlyControls: keyboard handlers

KeyFlag(code) ==
  CASE code \in {"KeyW", "ArrowUp"} -> "forward"
    [] code \in {"KeyS", "ArrowDown"} -> "backward"
    [] code \in {"KeyA", "ArrowLeft"} -> "left"
    [] code \in {"KeyD", "ArrowRight"} -> "right"
    [] code = "Space" -> "up"
    [] code = "ShiftLeft" -> "down"
    [] OTHER -> "none"

\* a keydown event on window; handled only while the listener is attached
onKeyDown(code) ==
  /\ ~crashed
  /\ moveState' = IF "keydown" \in listeners /\ KeyFlag(code) # "none"
                  THEN [moveState EXCEPT ![KeyFlag(code)] = TRUE]
                  ELSE moveState
  /\ UNCHANGED <<storeVars, popup, modeVars, camVars, ctrlVars, velocity, isLocked, listeners,
                 pointerLockElement, tourVars, crashed, frame, wrote>>
  /\ last' = <<"onKeyDown", code>>

\* a keyup event on window
onKeyUp(code) ==
  /\ ~crashed
  /\ moveState' = IF "keyup" \in listeners /\ KeyFlag(code) # "none"
                  THEN [moveState EXCEPT ![KeyFlag(code)] = FALSE]
                  ELSE moveState
  /\ UNCHANGED <<storeVars, popup, modeVars, camVars, ctrlVars, velocity, isLocked, listeners,
                 pointerLockElement, tourVars, crashed, frame, wrote>>
  /\ last' = <<"onKeyUp", code>>

----------------------------------------------------------------------------
\* FlyControls: pointer handlers.  Mouse motion is counted in quarter turns
\* (movementX * 0.002 = pi / 2); the browser's answer to requestPointerLock
\* is taken together with the click that asked for it.

\* onPointerLockChange: isLocked.current = (document.pointerLockElement === gl.domElement)
onPointerLockChange(element) ==
  IF "pointerlockchange" \in listeners THEN element ELSE isLocked

\* onMouseMove: yaw and pitch turned by the motion, pitch clamped to +-pi/2
MouseLook(rot, mx, my) == <<(rot[1] - mx + 4) % 4, Max(0 - 1, Min(1, rot[2] - my))>>

\* onMouseMove without the isLocked check
onMouseMoveUnlocked(mx, my) ==
  /\ ~crashed
  /\ camRot' = IF "mousemove" \in listeners
               THEN MouseLook(camRot, mx, my)
               ELSE camRot
  /\ UNCHANGED <<storeVars, popup, modeVars, camPos, ctrlVars, flyVars, tourVars, crashed, frame, wrote>>
  /\ last' = <<"onMouseMove", mx, my>>

\* a mousemove event on document
onMouseMove(mx, my) ==
  /\ ~crashed
  /\ camRot' = IF "mousemove" \in listeners /\ isLocked
               THEN MouseLook(camRot, mx, my)
               ELSE camRot
  /\ UNCHANGED <<storeVars, popup, modeVars, camPos, ctrlVars, flyVars, tourVars, crashed, frame, wrote>>
  /\ last' = <<"onMouseMove", mx, my>>

\* a click on the canvas issues requestPointerLock
ClickRequestsLock == "click" \in listeners /\ floatMode /\ ~isLocked

\* a click event on the canvas; granted: the browser grants a request
onClick(granted) ==
  /\ ~crashed
  /\ IF ClickRequestsLock /\ granted
     THEN /\ pointerLockElement' = TRUE
          /\ isLocked' = onPointerLockChange(TRUE)
     ELSE UNCHANGED <<pointerLockElement, isLocked>>
  /\ UNCHANGED <<storeVars, popup, modeVars, camVars, ctrlVars, moveState, velocity, listeners,
                 tourVars, crashed, frame, wrote>>
  /\ last' = <<"onClick", ClickRequestsLock, granted>>

\* the user presses Escape while the pointer is captured: the browser
\* releases it and fires pointerlockchange
userExitsPointerLock ==
  /\ ~crashed
  /\ pointerLockElement
  /\ pointerLockElement' = FALSE
  /\ isLocked' = onPointerLockChange(FALSE)
  /\ UNCHANGED <<storeVars, popup, modeVars, camVars, ctrlVars, moveState, velocity, listeners,
                 tourVars, crashed, frame, wrote>>
  /\ last' = <<"userExitsPointerLock">>

----------------------------------------------------------------------------
\* The frame: the three useFrame callbacks, in mount order

LerpPct == 8
EpsilonMilli == 100
FlySpeedMilli == 150
DampingPct == 92
TourSpeedPct == 8
TourLerpPct == 6

\* CameraController.useFrame without the floatMode guard
CameraControllerFrameUnguarded(p) ==
  IF ~isAnimatingRef
  THEN <<p, isAnimatingRef, FALSE>>
  ELSE LET q == Lerp(p, targetRef, LerpPct)
       IN  <<q, ~(DistSq(q, targetRef) < EpsilonMilli * EpsilonMilli), TRUE>>

\* CameraController.useFrame applied to position p: <<position, isAnimating, wrote>>
CameraControllerFrame(p) ==
  IF (floatMode \/ autoPilot) \/ ~isAnimatingRef
  THEN <<p, isAnimatingRef, FALSE>>
  ELSE LET q == Lerp(p, targetRef, LerpPct)
       IN  <<q, ~(DistSq(q, targetRef) < EpsilonMilli * EpsilonMilli), TRUE>>

\* the movement vector composed from the flags, before normalize()
FlyDirection ==
  <<(IF moveState.right THEN 1 ELSE 0) - (IF moveState.left THEN 1 ELSE 0),
    (IF moveState.up THEN 1 ELSE 0) - (IF moveState.down THEN 1 ELSE 0),
    (IF moveState.backward THEN 1 ELSE 0) - (IF moveState.forward THEN 1 ELSE 0)>>

\* Vector3.normalize of a vector with components in -1..1, in 1/1000
Normalize(d) ==
  LET n == d[1] * d[1] + d[2] * d[2] + d[3] * d[3]
      unit == CASE n = 0 -> 0 [] n = 1 -> 1000 [] n = 2 -> 707 [] OTHER -> 577
  IN  <<d[1] * unit, d[2] * unit, d[3] * unit>>

\* rotation about X by `pitch` quarter turns
RotateX(v, pitch) ==
  CASE pitch = 1 -> <<v[1], 0 - v[3], v[2]>>
    [] pitch = 0 - 1 -> <<v[1], v[3], 0 - v[2]>>
    [] OTHER -> v

\* rotation about Y by `yaw` quarter turns
RotateY(v, yaw) ==
  CASE yaw % 4 = 1 -> <<v[3], v[2], 0 - v[1]>>
    [] yaw % 4 = 2 -> <<0 - v[1], v[2], 0 - v[3]>>
    [] yaw % 4 = 3 -> <<0 - v[3], v[2], v[1]>>
    [] OTHER -> v

\* Vector3.applyQuaternion(camera.quaternion), Euler order YXZ
ApplyQuaternion(v, rot) == RotateY(RotateX(v, rot[2]), rot[1])

\* FlyControls.useFrame that damps the old velocity before adding the input
FlyControlsFrameDampFirst(p) ==
  IF ~floatMode THEN <<p, velocity, FALSE>>
  ELSE LET direction == ApplyQuaternion(Normalize(FlyDirection), camRot)
           v == VAdd(VScale(velocity, DampingPct, 100), VScale(direction, FlySpeedMilli, 1000))
       IN  <<VAdd(p, v), v, TRUE>>

\* FlyControls.useFrame applied to position p: <<position, velocity, wrote>>
FlyControlsFrame(p) ==
  IF ~floatMode THEN <<p, velocity, FALSE>>
  ELSE LET direction == ApplyQuaternion(Normalize(FlyDirection), camRot)
           v == VScale(VAdd(velocity, VScale(direction, FlySpeedMilli, 1000)), DampingPct, 100)
       IN  <<VAdd(p, v), v, TRUE>>

\* the Catmull-Rom axis with 4 * p1 in the quadratic term instead of 5 * p1
CatmullRomAxisFlatQuadratic(p0, p1, p2, p3, f) ==
  LET f2 == (f * f) \div 1000
      f3 == (f2 * f) \div 1000
  IN  MulDiv(2 * p1 + MulDiv(p2 - p0, f, 1000)
               + MulDiv(2 * p0 - 4 * p1 + 4 * p2 - p3, f2, 1000)
               + MulDiv(3 * p1 - p0 - 3 * p2 + p3, f3, 1000), 1, 2)

\* one axis of the Catmull-Rom point, f in 1/1000
CatmullRomAxis(p0, p1, p2, p3, f) ==
  LET f2 == (f * f) \div 1000
      f3 == (f2 * f) \div 1000
  IN  MulDiv(2 * p1 + MulDiv(p2 - p0, f, 1000)
               + MulDiv(2 * p0 - 5 * p1 + 4 * p2 - p3, f2, 1000)
               + MulDiv(3 * p1 - p0 - 3 * p2 + p3, f3, 1000), 1, 2)

\* the spline point at progress t (in 1/1000 of a segment) of the cyclic list
SplinePoint(waypoints, t) ==
  LET totalSegments == Len(waypoints)
      segmentIndex == t \div 1000
      f == t % 1000
      p0 == waypoints[((segmentIndex - 1 + totalSegments) % totalSegments) + 1]
      p1 == waypoints[(segmentIndex % totalSegments) + 1]
      p2 == waypoints[((segmentIndex + 1) % totalSegments) + 1]
      p3 == waypoints[((segmentIndex + 2) % totalSegments) + 1]
  IN  [k \in 1..3 |-> CatmullRomAxis(p0[k], p1[k], p2[k], p3[k], f)]

\* AutoPilot.useFrame that stops at the end of the list instead of wrapping
AutoPilotFrameNoWrap(p, delta) ==
  IF ~autoPilot \/ Len(waypointsRef) < 4 THEN <<p, progressRef, FALSE>>
  ELSE LET progress == Min(progressRef + MulDiv(delta, TourSpeedPct, 100),
                           Len(waypointsRef) * 1000 - 1)
       IN  <<Lerp(p, SplinePoint(waypointsRef, progress), TourLerpPct), progress, TRUE>>

\* AutoPilot.useFrame applied to position p: <<position, progress, wrote>>; delta in ms
AutoPilotFrame(p, delta) ==
  IF ~autoPilot \/ Len(waypointsRef) < 4 THEN <<p, progressRef, FALSE>>
  ELSE LET progress == progressRef + MulDiv(delta, TourSpeedPct, 100)
           t == progress % (Len(waypointsRef) * 1000)
       IN  <<Lerp(p, SplinePoint(waypointsRef, t), TourLerpPct), progress, TRUE>>

\* camera.quaternion.slerp(targetQuat, 0.04) in quarter turns: the
\* orientation stays in its quarter or crosses into the next one
AutoPilotTurn(rot) == {rot, <<(rot[1] + 1) % 4, rot[2]>>}

\* what the useFrame callbacks do in one frame
RenderFrame(delta) ==
  /\ \E c \in {CameraControllerFrame(camPos)} :
     \E f \in {FlyControlsFrame(c[1])} :
     \E a \in {AutoPilotFrame(f[1], delta)} :
         /\ camPos' = a[1]
         /\ isAnimatingRef' = c[2]
         /\ velocity' = f[2]
         /\ progressRef' = a[2]
         /\ camRot' \in (IF a[3] THEN AutoPilotTurn(camRot) ELSE {camRot})
         /\ wrote' = (IF c[3] THEN {"CameraController"} ELSE {})
                       \cup (IF f[3] THEN {"FlyControls"} ELSE {})
                       \cup (IF a[3] THEN {"AutoPilot"} ELSE {})
  /\ UNCHANGED <<storeVars, popup, modeVars, targetRef, lastTargetRef, moveState, isLocked,
                 listeners, pointerLockElement, waypointsRef, crashed>>
  /\ last' = <<"Tick">>

\* one rendered frame, counted
Tick(delta) ==
  /\ ~crashed
  /\ frame < MaxFrames
  /\ frame' = frame + 1
  /\ RenderFrame(delta)

\* one rendered frame of a run that does not count its frames
FreeTick(delta) ==
  /\ ~crashed
  /\ UNCHANGED frame
  /\ RenderFrame(delta)

\* The state once the first point set, Data8, has arrived: the tour is generated
InitNav ==
  /\ terms = Data8
  /\ filters = initialFilters
  /\ selection = initialSelection
  /\ comparison = initialComparison
  /\ view = initialView
  /\ popup = initialPopup
  /\ floatMode = FALSE
  /\ autoPilot = FALSE
  /\ camPos = <<0, 5000, 18000>>
  /\ camRot = <<0, 0>>
  /\ targetRef = initialView.cameraPosition
  /\ isAnimatingRef = FALSE
  /\ lastTargetRef = initialView.cameraPosition
  /\ moveState = [forward |-> FALSE, backward |-> FALSE, left |-> FALSE,
                  right |-> FALSE, up |-> FALSE, down |-> FALSE]
  /\ velocity = <<0, 0, 0>>
  /\ isLocked = FALSE
  /\ listeners = {}
  /\ pointerLockElement = FALSE
  /\ \E reversed \in BOOLEAN, r \in RandomPool : waypointsRef = GenWaypoints(Data8, reversed, r)
  /\ progressRef = 0
  /\ crashed = FALSE
  /\ frame = 0
  /\ wrote = {}
  /\ last = <<"setData">>

\* The navigation modes with the camera: toggles, frames, a movement key
\* and focus requests
NextNav ==
  \/ toggleFloatMode
  \/ toggleAutoPilot
  \/ \E delta \in {6250} : Tick(delta)
  \/ onKeyDown("KeyW")
  \/ onKeyUp("KeyW")
  \/ focusOnCluster(G4)
  \/ resetCamera

SpecNav == InitNav /\ [][NextNav]_vars

\* Fly with its keyboard and pointer input
NextFly ==
  \/ toggleFloatMode
  \/ toggleAutoPilot
  \/ onKeyDown("KeyW")
  \/ onKeyUp("KeyW")
  \/ onMouseMove(1, 1)
  \/ \E granted \in BOOLEAN : onClick(granted)
  \/ userExitsPointerLock
  \/ \E delta \in {16} : Tick(delta)

SpecFly == Init /\ [][NextFly]_vars

\* one rendered frame of Fly with only the forward flag set, counted
HeldTick(delta) ==
  /\ ~crashed
  /\ floatMode
  /\ moveState = [forward |-> TRUE, backward |-> FALSE, left |-> FALSE,
                  right |-> FALSE, up |-> FALSE, down |-> FALSE]
  /\ frame < MaxGlideFrames
  /\ frame' = frame + 1
  /\ RenderFrame(delta)

\* Fly from rest with the forward key: every frame is rendered with the key held
NextGlide ==
  \/ toggleFloatMode
  \/ onKeyDown("KeyW")
  \/ onKeyUp("KeyW")
  \/ \E delta \in {16} : HeldTick(delta)

SpecGlide == Init /\ [][NextGlide]_vars

\* The comparison popup with its compare requests: clicks that choose and
\* replace the pair, the two ways to close it, and responses that arrive for
\* the live request or for a cancelled one
NextPopup ==
  \/ \E cluster \in {G1, G2, G3} : setComparisonCluster(cluster)
  \/ dismiss
  \/ onKeyEscape
  \/ \E cancelled \in BOOLEAN : compareResolved(cancelled)
  \/ \E cancelled \in BOOLEAN : compareRejected(cancelled)

SpecPopup == Init /\ [][NextPopup]_vars

\* the point sets a load can deliver: one, two, five and eight points
DataPool == {<<T1>>, Data2, Data5, Data8}

\* a frame of a run with point-set changes
TourTick(delta) == frame < MaxTourFrames /\ Tick(delta)

\* AutoPilot with point-set changes: loads, the category filter, the toggle
\* and frames
NextTour ==
  \/ \E data \in DataPool : setData(data)
  \/ setFilter("category", CatLe)
  \/ toggleAutoPilot
  \/ \E delta \in {6250} : TourTick(delta)

SpecTour == Init /\ [][NextTour]_vars

\* the labels a caller asks for: exact, differing in case, and unknown
CategoryLabels == {CatLe, <<"l", "e">>, CatCa, <<"n", "o">>}
SubcategoryLabels == {SubAB, <<"A", "_", "b">>, <<"n", "_", "o">>}

\* Focus by label, with loads and a comparison click (which selects too)
NextFocus ==
  \/ \E data \in {Data3, Data8} : setData(data)
  \/ \E category \in CategoryLabels : focusOnCategory(category)
  \/ \E subcategory \in SubcategoryLabels : focusOnSubcategory(subcategory)
  \/ setComparisonCluster(G1)
  \/ resetView

SpecFocus == Init /\ [][NextFocus]_vars

\* a focus request made while the camera is at rest
focusAtRest(cluster) == ~isAnimatingRef /\ focusOnCluster(cluster)

\* a reset made while the camera is at rest
resetAtRest == ~isAnimatingRef /\ resetCamera

\* Orbit only: camera requests and frames, the render loop running for ever
NextReset ==
  \/ resetAtRest
  \/ focusAtRest(G2)
  \/ \E delta \in {16} : FreeTick(delta)

\* requestAnimationFrame keeps calling the frame callbacks
SpecReset == Init /\ [][NextReset]_vars /\ WF_vars(\E delta \in {16} : FreeTick(delta))

\* a frame of a run that follows the tour for MaxLaps laps
LapTick(delta) ==
  /\ progressRef < MaxLaps * Len(waypointsRef) * 1000
  /\ FreeTick(delta)

\* AutoPilot alone: its toggle and frames of half a segment each
NextLoop ==
  \/ toggleAutoPilot
  \/ \E delta \in {6250} : LapTick(delta)

\* requestAnimationFrame keeps calling the frame callbacks
SpecLoop == InitNav /\ [][NextLoop]_vars /\ WF_vars(\E delta \in {6250} : LapTick(delta))

----------------------------------------------------------------------------
\* Properties of the navigation modes

\* C1: Fly and AutoPilot are never both active.
C1_ModesExclusive == ~(floatMode /\ autoPilot)

\* C1 witness: Fly entered by its toggle after AutoPilot had been flying the camera
C1_Witness ==
  /\ last = <<"toggleFloatMode">>
  /\ floatMode
  /\ progressRef > 0

\* C2: toggleFloatMode flips Fly and switches AutoPilot off, toggleAutoPilot
\* flips AutoPilot and switches Fly off; toggling the active mode off leaves
\* both flags false, and the orbit controls are mounted exactly then.
C2_ToggleEffect ==
  [][ /\ last'[1] = "toggleFloatMode" =>
           /\ floatMode' = ~floatMode /\ autoPilot' = FALSE
           /\ floatMode => (~floatMode' /\ ~autoPilot' /\ OrbitControlsMounted')
      /\ last'[1] = "toggleAutoPilot" =>
           /\ autoPilot' = ~autoPilot /\ floatMode' = FALSE
           /\ autoPilot => (~floatMode' /\ ~autoPilot' /\ OrbitControlsMounted')
      /\ OrbitControlsMounted' <=> ~(floatMode' \/ autoPilot') ]_vars

\* C2 witness: AutoPilot toggled off after it had been flying the camera
C2_Witness ==
  /\ last = <<"toggleAutoPilot">>
  /\ ~autoPilot /\ ~floatMode
  /\ progressRef > 0

\* C9: in every frame at most one of CameraController, FlyControls and
\* AutoPilot writes camera.position: CameraController does nothing while Fly
\* or AutoPilot is active, FlyControls writes only while Fly is active and
\* AutoPilot only while AutoPilot is active.
C9_SingleWriter ==
  [][ frame' = frame + 1 =>
        /\ Cardinality(wrote') <= 1
        /\ (floatMode \/ autoPilot) =>
             ("CameraController" \notin wrote' /\ isAnimatingRef' = isAnimatingRef)
        /\ "FlyControls" \in wrote' => floatMode
        /\ "AutoPilot" \in wrote' => autoPilot ]_vars

\* C9 witness: AutoPilot wrote the frame while CameraController had an
\* unfinished animation
C9_Witness ==
  /\ wrote = {"AutoPilot"}
  /\ isAnimatingRef
  /\ last = <<"Tick">>

\* a step that leaves Fly or AutoPilot for Orbit
ExitToOrbit == (floatMode \/ autoPilot) /\ ~(floatMode' \/ autoPilot')

\* a frame rendered in Orbit
OrbitTick == frame' = frame + 1 /\ ~(floatMode \/ autoPilot)

WithinEpsilon(p, q) == DistSq(p, q) < 100 * 100

\* C10 as stated: after a focus request, whenever Fly or AutoPilot is left
\* the camera is not teleported and CameraController is seeking the requested
\* position, unless the camera is already within epsilon of it.
C10_AlwaysResumes ==
  [][ (ExitToOrbit /\ view.cameraPosition = ClusterCameraPosition(G4)) =>
        /\ camPos' = camPos
        /\ targetRef' = view.cameraPosition
        /\ isAnimatingRef' \/ WithinEpsilon(camPos', view.cameraPosition) ]_vars

\* C10 amended: leaving Fly or AutoPilot does not move the camera, and
\* CameraController seeks the requested position afterwards exactly when an
\* animation was unfinished at entry or another position than the one it
\* last adopted was requested meanwhile; in Orbit a seeking controller moves
\* the camera by exponential smoothing until within epsilon, an idle one
\* leaves it alone.
C10_ResumesUnfinishedOrNew ==
  [][ /\ ExitToOrbit =>
           /\ camPos' = camPos
           /\ targetRef' = view.cameraPosition
           /\ isAnimatingRef' <=> (isAnimatingRef \/ view.cameraPosition # lastTargetRef)
      /\ (OrbitTick /\ isAnimatingRef) =>
           /\ camPos' = VAdd(camPos, VScale(VSub(view.cameraPosition, camPos), 8, 100))
           /\ isAnimatingRef' <=> ~WithinEpsilon(camPos', view.cameraPosition)
      /\ (OrbitTick /\ ~isAnimatingRef) => camPos' = camPos ]_vars

\* C10 witness: Fly left with the camera moved by it and the controller
\* seeking the position requested before
C10_Witness ==
  /\ last = <<"toggleFloatMode">>
  /\ ~floatMode /\ ~autoPilot
  /\ velocity # <<0, 0, 0>>
  /\ isAnimatingRef
  /\ targetRef = ClusterCameraPosition(G4)

\* a camera request made in Orbit while an animation toward another position runs
Retarget ==
  /\ last'[1] \in {"focusOnCluster", "resetCamera"}
  /\ ~(floatMode \/ autoPilot)
  /\ isAnimatingRef
  /\ view'.cameraPosition # targetRef

\* C21: a position requested in Orbit during an animation replaces the
\* target at once: in Orbit the controller's target is always the newest
\* requested position, every frame of a seeking controller moves toward it,
\* and the animation completes only within epsilon of it.
C21_LastRequestWins ==
  /\ [](~(floatMode \/ autoPilot) => targetRef = view.cameraPosition)
  /\ [][ /\ Retarget =>
              (targetRef' = view'.cameraPosition /\ isAnimatingRef' /\ camPos' = camPos)
         /\ (last' = <<"Tick">> /\ ~(floatMode \/ autoPilot) /\ isAnimatingRef) =>
              /\ \A k \in 1..3 :
                   camPos'[k] = camPos[k] + MulDiv(view.cameraPosition[k] - camPos[k], 8, 100)
              /\ ~isAnimatingRef' => DistSq(camPos', view.cameraPosition) < 100 * 100 ]_vars

\* C21 witness: a focus was requested while the camera was on its way to
\* the default position, moved by nothing but the controller
C21_Witness ==
  /\ last = <<"focusOnCluster", G4>>
  /\ ~floatMode /\ ~autoPilot
  /\ isAnimatingRef
  /\ targetRef = ClusterCameraPosition(G4)
  /\ camPos[3] < 18000
  /\ velocity = <<0, 0, 0>> /\ progressRef = 0

\* a step that leaves AutoPilot
ExitAutoPilot == autoPilot /\ ~autoPilot'

\* C22 as stated: immediately after AutoPilot is left the waypoint list is
\* empty.
C22_ExitEmptiesWaypoints == [][ ExitAutoPilot => waypointsRef' = <<>> ]_vars

\* C22 amended: leaving AutoPilot, by either toggle, changes neither the
\* waypoint list nor the progress nor the camera position.
C22_ExitKeepsWaypoints ==
  [][ ExitAutoPilot =>
        /\ last'[1] \in {"toggleAutoPilot", "toggleFloatMode"}
        /\ waypointsRef' = waypointsRef /\ Len(waypointsRef') >= 4
        /\ progressRef' = progressRef
        /\ camPos' = camPos ]_vars

\* C22 witness: AutoPilot was left by its own toggle right after a frame in
\* which it had moved the camera along the 13 waypoints
C22_Witness ==
  /\ last = <<"toggleAutoPilot">>
  /\ ~autoPilot
  /\ wrote = {"AutoPilot"}
  /\ Len(waypointsRef) = 13
  /\ progressRef > 0

----------------------------------------------------------------------------
\* Properties of Fly

InputEvents == {"onKeyDown", "onKeyUp", "onMouseMove", "onClick"}

\* C11: the attached listeners are exactly the five of FlyControls while Fly
\* is active and none otherwise; the step that switches Fly off detaches them
\* and releases the pointer capture, and an input event arriving while Fly is
\* off changes neither the movement flags, the orientation, the camera
\* position nor the pointer capture.
C11_ListenersDetached ==
  /\ [](listeners = IF floatMode THEN FlyListeners ELSE {})
  /\ [][ /\ (floatMode /\ ~floatMode') => (listeners' = {} /\ ~pointerLockElement')
         /\ (~floatMode /\ last'[1] \in InputEvents) =>
              UNCHANGED <<moveState, camRot, camPos, pointerLockElement, isLocked>> ]_vars

\* C11 witness: Fly was left by toggleAutoPilot while the pointer was
\* captured and a key was held, and a click on the canvas followed
C11_Witness ==
  /\ last = <<"onClick", FALSE, TRUE>>
  /\ autoPilot /\ ~floatMode
  /\ isLocked /\ ~pointerLockElement
  /\ moveState.forward

\* C17 as stated: after a click whose capture request was denied, the next
\* input event or frame changes neither the camera position nor the
\* orientation.
C17_InertAfterDenial ==
  [][ last = <<"onClick", TRUE, FALSE>> => UNCHANGED <<camPos, camRot>> ]_vars

\* C17 amended: while Fly is active without capture, a denied click leaves
\* Fly entered and uncaptured and a granted one captures; mouse motion and
\* key events leave the camera alone, but a frame still adds the velocity
\* built from the movement flags to the position, so a held key moves the
\* camera; the orientation does not change.
C17_OnlyMouseLookInert ==
  [][ (floatMode /\ ~isLocked) =>
        /\ last'[1] = "onClick" =>
             /\ floatMode' /\ listeners' = FlyListeners
             /\ isLocked' = last'[3] /\ pointerLockElement' = (pointerLockElement \/ last'[3])
             /\ UNCHANGED <<camPos, camRot>>
        /\ last'[1] \in {"onMouseMove", "onKeyDown", "onKeyUp"} =>
             UNCHANGED <<camPos, camRot, isLocked>>
        /\ last'[1] = "Tick" =>
             /\ camRot' = camRot
             /\ camPos' = <<camPos[1] + velocity'[1], camPos[2] + velocity'[2], camPos[3] + velocity'[3]>>
             /\ moveState.forward => camPos' # camPos ]_vars

\* C17 witness: a capture request was just denied while a held key was
\* already moving the camera
C17_Witness ==
  /\ last = <<"onClick", TRUE, FALSE>>
  /\ floatMode /\ ~isLocked /\ ~pointerLockElement
  /\ moveState.forward
  /\ velocity # <<0, 0, 0>>

\* C19: whenever Fly is active and the canvas does not hold the pointer
\* capture, a click on the canvas issues a capture request; and mouse motion
\* changes the orientation only while the capture is held.
C19_ClickRequestsCapture ==
  [][ /\ (floatMode /\ ~pointerLockElement /\ last'[1] = "onClick") => last'[2]
      /\ (last'[1] = "onMouseMove" /\ camRot' # camRot) => pointerLockElement ]_vars

\* Scenario C: the number of consecutive frames with the forward key held
GlideTicks == 50

\* velocity.length() in 1/1000
Speed == Sqrt(DistSq(velocity, <<0, 0, 0>>))

\* s / (1 - d) in 1/1000: 1875
ClaimedSteadyState == (FlySpeedMilli * 100) \div (100 - DampingPct)

\* s * d / (1 - d) in 1/1000, the fixed point of v -> (v + s) * d: 1725
SteadyState == (FlySpeedMilli * DampingPct) \div (100 - DampingPct)

\* C25 as stated: after 50 frames from rest with only the forward flag held the
\* speed is within 1% of s / (1 - d).
C25_WithinOnePercentOfClaimed ==
  frame = GlideTicks => 100 * Abs(Speed - ClaimedSteadyState) <= ClaimedSteadyState

\* C25: from rest, with only the forward flag held in every frame, the
\* velocity points straight ahead, grows from frame to frame without ever
\* exceeding s * d / (1 - d), and after the 50th frame its magnitude is within
\* 2% of s * d / (1 - d), which is more than 8% below s / (1 - d).
C25_ConvergesToDampedSteadyState ==
  /\ [](/\ velocity = <<0, 0, 0 - Speed>>
        /\ Speed <= SteadyState
        /\ frame = GlideTicks =>
              /\ 100 * (SteadyState - Speed) <= 2 * SteadyState
              /\ 100 * (ClaimedSteadyState - Speed) > 8 * ClaimedSteadyState)
  /\ [][last' = <<"Tick">> => velocity'[3] < velocity[3]]_vars

\* C25 witness: the 50th frame with the forward key held has just been rendered
C25_Witness ==
  /\ last = <<"Tick">> /\ frame = GlideTicks /\ floatMode /\ moveState.forward
  /\ Speed > 0

\* the six movement flags are all false
NoFlagSet ==
  moveState = [forward |-> FALSE, backward |-> FALSE, left |-> FALSE,
               right |-> FALSE, up |-> FALSE, down |-> FALSE]

\* C28 as stated: whenever Fly is entered, for the first time or again, all
\* six movement flags are false and the velocity is zero (so that the frames
\* after the entry leave the camera where it is until a key is pressed).
C28_EntryStartsAtRest ==
  [][ (~floatMode /\ floatMode') => (NoFlagSet' /\ velocity' = <<0, 0, 0>>) ]_vars

----------------------------------------------------------------------------
\* Properties of the tour

\* the point set AutoPilot is given
TourTerms == FilteredTerms(terms, filters)

\* C12: no sequence of loads, filter changes, toggles and frames reaches a
\* state in which an effect has thrown and the render loop is halted.
C12_NoFatalError == ~crashed

\* C13: whenever the point set given to AutoPilot has fewer than 3 points,
\* the waypoint list is empty.
C13_FewPointsNoWaypoints == (~crashed /\ Len(TourTerms) < 3) => waypointsRef = <<>>

\* C18: a point-set change to n >= 3 points completes and leaves a list of
\* NumWaypoints(n) + 5 waypoints (start, NumWaypoints(n) dives, 3 sweeps,
\* end) with the progress reset to 0.
C18_GeneratesTour ==
  [][ (last'[1] = "setData" /\ ~crashed /\ Len(TourTerms') >= 3) =>
        /\ ~crashed'
        /\ Len(waypointsRef') = NumWaypoints(Len(TourTerms')) + 5
        /\ progressRef' = 0 ]_vars

\* the segment index for a progress value: floor(progress mod n)
SegmentIndex(progress) == (progress % (Len(waypointsRef) * 1000)) \div 1000

\* AutoPilot is active in the first lap of the tour
InFirstLap == autoPilot /\ progressRef < Len(waypointsRef) * 1000

\* the tour has gone through all of the second lap, or AutoPilot was toggled off
SecondLapDoneOrOff == progressRef >= 2 * Len(waypointsRef) * 1000 \/ ~autoPilot

\* C23: while AutoPilot is active with at least 4 waypoints every frame
\* advances the progress by delta * 0.08; the segment index lies in 0..n-1,
\* the position moves toward the Catmull-Rom point of the waypoints
\* (i-1) mod n, i, (i+1) mod n, (i+2) mod n, the index steps from i to
\* (i+1) mod n, so to 0 after the last segment, and the tour does not stop:
\* from anywhere in the first lap it goes on through the whole second lap,
\* that is through every segment again, as long as AutoPilot stays on.
C23_TourLoops ==
  /\ [][ (autoPilot /\ last' = <<"Tick">>) =>
           LET n == Len(waypointsRef)
               i == SegmentIndex(progressRef')
               f == progressRef' % 1000
               w(j) == waypointsRef[((j + n) % n) + 1]
           IN  /\ n >= 4
               /\ progressRef' = progressRef + (6250 * 8) \div 100
               /\ i \in 0..(n - 1)
               /\ SegmentIndex(progressRef) # i =>
                    i = (SegmentIndex(progressRef) + 1) % n
               /\ \A k \in 1..3 :
                    camPos'[k] = camPos[k] + MulDiv(
                      CatmullRomAxis(w(i - 1)[k], w(i)[k], w(i + 1)[k], w(i + 2)[k], f) - camPos[k],
                      6, 100) ]_vars
  /\ InFirstLap ~> SecondLapDoneOrOff

\* C23 witness: the tour has passed its last segment and is on segment 0 again
C23_Witness ==
  /\ last = <<"Tick">>
  /\ autoPilot
  /\ progressRef >= Len(waypointsRef) * 1000
  /\ SegmentIndex(progressRef) = 0

\* waypoint j of the cyclic list, j counted from 0 and taken modulo its length
WaypointAt(j) == waypointsRef[((j + Len(waypointsRef)) % Len(waypointsRef)) + 1]

\* axis k of the Catmull-Rom formula on segment i at local fraction f
SegmentAxis(i, k, f) ==
  CatmullRomAxis(WaypointAt(i - 1)[k], WaypointAt(i)[k], WaypointAt(i + 1)[k], WaypointAt(i + 2)[k], f)

\* C24: for the cyclic waypoint list of every reachable state and every
\* segment i, on each axis, the Catmull-Rom formula at t = 1 on segment i
\* equals the formula at t = 0 on segment (i+1) mod n, and both equal
\* waypoint (i+1) mod n: the spline is continuous across segment boundaries,
\* the wrap from the last segment to segment 0 included.
C24_SplineContinuous ==
  \A i \in 0..(Len(waypointsRef) - 1) : \A k \in 1..3 :
    /\ SegmentAxis(i, k, 1000) = SegmentAxis((i + 1) % Len(waypointsRef), k, 0)
    /\ SegmentAxis(i, k, 1000) = WaypointAt(i + 1)[k]

\* C24 witness: a frame of the tour has just put the spline exactly on the
\* boundary between the last segment and segment 0
C24_Witness ==
  /\ last = <<"Tick">> /\ autoPilot /\ Len(waypointsRef) >= 4
  /\ progressRef > 0 /\ progressRef % (Len(waypointsRef) * 1000) = 0
  /\ WaypointAt(0) # WaypointAt(1)

----------------------------------------------------------------------------
\* Properties of the focus by label

\* no loaded point carries the label in `field`, exactly or ignoring case
NoPointMatches(field, label) ==
  \A i \in 1..Len(terms) :
    terms[i][field] = NoStr \/ ToLowerCase(terms[i][field]) # ToLowerCase(label)

\* a step that leaves the requested pose, the selection and the comparison alone
PoseAndSelectionKept ==
  /\ view'.cameraPosition = view.cameraPosition
  /\ view'.cameraTarget = view.cameraTarget
  /\ selection' = selection
  /\ comparison' = comparison

\* C14 as stated: a label focus that matches no point leaves the requested
\* pose, the selection and the comparison unchanged and records the label as
\* given, in filters.category for a category and in filters.searchQuery for a
\* subcategory.
C14_NoMatchRecordsLabel ==
  [][ /\ (last'[1] = "focusOnCategory" /\ NoPointMatches("category", last'[2])) =>
           (PoseAndSelectionKept /\ filters'.category = last'[2])
      /\ (last'[1] = "focusOnSubcategory" /\ NoPointMatches("subcategory", last'[2])) =>
           (PoseAndSelectionKept /\ filters'.searchQuery = last'[2]) ]_vars

\* C14 amended: as above, but filters.searchQuery records the subcategory
\* label with its underscores replaced by spaces; the other filters are kept.
C14_NoMatchRecordsDisplayName ==
  [][ /\ (last'[1] = "focusOnCategory" /\ NoPointMatches("category", last'[2])) =>
           (PoseAndSelectionKept /\ filters' = [filters EXCEPT !.category = last'[2]])
      /\ (last'[1] = "focusOnSubcategory" /\ NoPointMatches("subcategory", last'[2])) =>
           /\ PoseAndSelectionKept
           /\ filters' = [filters EXCEPT !.searchQuery =
                [i \in 1..Len(last'[2]) |-> IF last'[2][i] = "_" THEN " " ELSE last'[2][i]]] ]_vars

\* C14 witness: an unknown subcategory was asked for while points were
\* loaded, a point was selected and a comparison had begun
C14_Witness ==
  /\ last = <<"focusOnSubcategory", <<"n", "_", "o">>>>
  /\ Len(terms) > 0
  /\ selection.selectedCluster # Null
  /\ comparison.clusterA # Null
  /\ filters.searchQuery = <<"n", " ", "o">>
  /\ view.cameraPosition # initialView.cameraPosition

\* the indices of the loaded points a category label matches: the exact
\* matches, or without any the matches ignoring case
CategoryMatches(label) ==
  LET exact == {i \in 1..Len(terms) : terms[i].category = label}
      anyCase == {i \in 1..Len(terms) :
                    terms[i].category # NoStr /\ ToLowerCase(terms[i].category) = ToLowerCase(label)}
  IN  IF exact # {} THEN exact ELSE anyCase

\* those of the points I that are not at (0,0,0)
OffOrigin(I) == {i \in I : <<terms[i].x, terms[i].y, terms[i].z>> # <<0, 0, 0>>}

RECURSIVE SumOver(_, _)
SumOver(I, k) ==
  IF I = {} THEN 0
  ELSE LET i == CHOOSE j \in I : TRUE
       IN  <<terms[i].x, terms[i].y, terms[i].z>>[k] + SumOver(I \ {i}, k)

\* v is the arithmetic mean of the points I, up to the rounding of one unit
IsMeanOf(v, I) ==
  \A k \in 1..3 : Abs(v[k] * Cardinality(I) - SumOver(I, k)) < Cardinality(I)

\* C15 as stated: after focusOnCategory with a label that matches at least
\* one point, cameraTarget is the arithmetic mean of all matching points.
C15_TargetIsMeanOfMatches ==
  [][ (last'[1] = "focusOnCategory" /\ CategoryMatches(last'[2]) # {}) =>
        IsMeanOf(view'.cameraTarget, CategoryMatches(last'[2])) ]_vars

\* C15 amended: cameraTarget is the arithmetic mean of the matching points
\* that are not at (0,0,0), and of all matching points when every one of
\* them is at (0,0,0).
C15_TargetIsMeanOffOrigin ==
  [][ (last'[1] = "focusOnCategory" /\ CategoryMatches(last'[2]) # {}) =>
        LET matches == CategoryMatches(last'[2])
        IN  IsMeanOf(view'.cameraTarget,
                     IF OffOrigin(matches) # {} THEN OffOrigin(matches) ELSE matches) ]_vars

\* C15 witness: category "ca" of the eight points, one of its six points at
\* the origin: the target is the mean of the other five
C15_Witness ==
  /\ last = <<"focusOnCategory", CatCa>>
  /\ terms = Data8
  /\ view.cameraTarget = <<600, 200, 800>>

----------------------------------------------------------------------------
\* Properties of the camera reset

\* resetCamera was the last operation, in Orbit
ResetRequested == last = <<"resetCamera">> /\ ~floatMode /\ ~autoPilot

\* the camera is within epsilon of the default position, or the reset was
\* superseded by another request or by leaving Orbit
ResetSettled ==
  \/ DistSq(camPos, initialView.cameraPosition) < 100 * 100
  \/ view.cameraPosition # initialView.cameraPosition
  \/ floatMode \/ autoPilot

\* C16: after resetCamera in Orbit the camera eventually comes within
\* epsilon of the default camera position, unless another position is
\* requested or Orbit is left first.
C16_ResetReachesDefault == ResetRequested ~> ResetSettled

\* a frame in which CameraController is seeking its target
SeekingTick == last' = <<"Tick">> /\ ~(floatMode \/ autoPilot) /\ isAnimatingRef

\* q lies between p and the target on every axis
NoOvershoot(p, q, target) ==
  \A k \in 1..3 : \/ (p[k] <= q[k] /\ q[k] <= target[k])
                  \/ (p[k] >= q[k] /\ q[k] >= target[k])

\* C20: in Orbit each frame of a seeking CameraController moves the position
\* by 0.08 of its difference to the target: the distance strictly decreases
\* and no coordinate passes the target; the animation is complete exactly
\* when the distance is below 0.1, which happens after finitely many frames
\* for a fixed target, and an idle controller leaves the position unchanged.
C20_SmoothingConverges ==
  /\ [][ /\ SeekingTick =>
              /\ \A k \in 1..3 :
                   camPos'[k] = camPos[k] + MulDiv(targetRef[k] - camPos[k], 8, 100)
              /\ DistSq(camPos', targetRef) < DistSq(camPos, targetRef)
              /\ NoOvershoot(camPos, camPos', targetRef)
              /\ isAnimatingRef' <=> DistSq(camPos', targetRef) >= 100 * 100
         /\ (last' = <<"Tick">> /\ ~isAnimatingRef) => (camPos' = camPos /\ ~isAnimatingRef') ]_vars
  /\ \A t \in {initialView.cameraPosition, ClusterCameraPosition(G2)} :
       (isAnimatingRef /\ targetRef = t) ~> (~isAnimatingRef \/ targetRef # t)

\* C20 witness: the animation has just completed, short of its target
C20_Witness ==
  /\ last = <<"Tick">>
  /\ wrote = {"CameraController"}
  /\ ~isAnimatingRef
  /\ DistSq(camPos, targetRef) < 100 * 100
  /\ camPos # targetRef

----------------------------------------------------------------------------
\* Properties of the store

\* the comparison table as specified: rules tested in order, clusters compared by id
ComparisonTable(A, B, g) ==
  IF A # Null /\ A.id = g.id THEN <<Null, Null>>
  ELSE IF B # Null /\ B.id = g.id THEN <<A, Null>>
  ELSE IF A = Null THEN <<g, Null>>
  ELSE <<A, g>>

RECURSIVE ClickAll(_, _, _)
\* the comparison pair after the clicks gs[i], gs[i+1], ... on pair cmp
ClickAll(cmp, gs, i) ==
  IF i > Len(gs) THEN cmp ELSE ClickAll(NextComparison(cmp, gs[i]), gs, i + 1)

\* C3: a setComparisonCluster(g) step takes the pair (A, B) to the pair the
\* comparison table gives for g, and from (null, null) the clicks G1 G2 G1
\* end in (null, null), G1 G2 G3 in (G1, G3) and G1 G2 G3 G1 in (null, null).
C3_ComparisonTable ==
  [][ /\ last'[1] = "setComparisonCluster" =>
           <<comparison'.clusterA, comparison'.clusterB>>
             = ComparisonTable(comparison.clusterA, comparison.clusterB, last'[2])
      /\ ClickAll(initialComparison, <<G1, G2, G1>>, 1) = initialComparison
      /\ ClickAll(initialComparison, <<G1, G2, G3>>, 1) = [clusterA |-> G1, clusterB |-> G3]
      /\ ClickAll(initialComparison, <<G1, G2, G3, G1>>, 1) = initialComparison
      /\ ClickAll(initialComparison, <<G1, G2, G1b>>, 1) = initialComparison ]_vars

\* C3 witness: B was replaced by a click on a third cluster
C3_Witness ==
  /\ last = <<"setComparisonCluster", G3>>
  /\ comparison = [clusterA |-> G1, clusterB |-> G3]

\* C4: when both comparison clusters are set, their ids differ.
C4_DistinctIds ==
  (comparison.clusterA # Null /\ comparison.clusterB # Null)
    => comparison.clusterA.id # comparison.clusterB.id

\* C4 witness: both set, A being the reloaded object of cluster 1
C4_Witness ==
  /\ comparison.clusterA = G1b
  /\ comparison.clusterB = G2

\* C5: selectedTerm and selectedCluster are never both non-null.
C5_PointXorGroup ==
  ~(selection.selectedTerm # Null /\ selection.selectedCluster # Null)

\* a cluster's centroid, a coordinate it lacks counting as 0
CentroidOf(g) ==
  <<IF g.x = Missing THEN 0 ELSE g.x, IF g.y = Missing THEN 0 ELSE g.y,
    IF g.z = Missing THEN 0 ELSE g.z>>

\* C6: every setComparisonCluster(g) step selects g, clears the selected
\* point and requests the camera at g's centroid + (0,0,5) looking at the
\* centroid, and leaves the hovered point and the filters as they were.
C6_ClickSelectsAndFocuses ==
  [][ last'[1] = "setComparisonCluster" =>
        /\ selection'.selectedCluster = last'[2]
        /\ selection'.selectedTerm = Null
        /\ view'.cameraTarget = CentroidOf(last'[2])
        /\ view'.cameraPosition = VAdd(CentroidOf(last'[2]), <<0, 0, 5000>>)
        /\ selection'.hoveredTerm = selection.hoveredTerm
        /\ filters' = filters ]_vars

\* C6 witness: a click that cleared the pair, with a hovered point and a
\* cluster filter in place
C6_Witness ==
  /\ last = <<"setComparisonCluster", G1b>>
  /\ comparison = initialComparison
  /\ selection.selectedCluster = G1b
  /\ selection.hoveredTerm # Null
  /\ filters.clusterId # 0

\* C7: clearComparison, the popup's dismiss and Escape with both clusters
\* set clear the pair and leave selection, filters and the requested camera
\* pose as they were.
C7_ClearComparisonFrame ==
  [][ (\/ last'[1] \in {"clearComparison", "dismiss"}
       \/ last' = <<"onKeyEscape", TRUE>>) =>
        /\ comparison' = initialComparison
        /\ selection' = selection
        /\ filters' = filters
        /\ view'.cameraPosition = view.cameraPosition
        /\ view'.cameraTarget = view.cameraTarget ]_vars

\* C7 witness: cleared with a selection, a hovered point, a filter and a
\* focus request in place
C7_Witness ==
  /\ last = <<"clearComparison">>
  /\ selection.selectedCluster # Null
  /\ selection.hoveredTerm # Null
  /\ filters.clusterId # 0
  /\ view.cameraPosition # initialView.cameraPosition

\* both clusters of the comparison are chosen
BothChosen == comparison.clusterA # Null /\ comparison.clusterB # Null

C27_HoverFrame ==
  [][ last'[1] = "setHoveredTerm" =>
        /\ selection'.hoveredTerm = last'[2]
        /\ selection'.selectedTerm = selection.selectedTerm
        /\ selection'.selectedCluster = selection.selectedCluster
        /\ comparison' = comparison
        /\ filters' = filters
        /\ view' = view
        /\ terms' = terms ]_vars

\* C27 witness: a hover event, onto a point or off it, arrived while another
\* point was selected and a comparison pair chosen
C27_Witness ==
  /\ last[1] = "setHoveredTerm"
  /\ selection.selectedTerm # Null
  /\ selection.selectedTerm # selection.hoveredTerm
  /\ BothChosen

\* C8 as stated: resetView clears the pair and leaves the selected point,
\* the selected group and the requested camera pose as they were.
C8_ResetKeepsSelectionAndPose ==
  [][ last'[1] = "resetView" =>
        /\ comparison' = initialComparison
        /\ selection'.selectedTerm = selection.selectedTerm
        /\ selection'.selectedCluster = selection.selectedCluster
        /\ view'.cameraPosition = view.cameraPosition
        /\ view'.cameraTarget = view.cameraTarget ]_vars

\* C8 amended: resetView clears the pair, clears the whole selection, resets
\* the filters except geoCode, and requests the default camera pose.
C8_ResetClearsAll ==
  [][ last'[1] = "resetView" =>
        /\ comparison' = initialComparison
        /\ selection' = initialSelection
        /\ filters' = [initialFilters EXCEPT !.geoCode = filters.geoCode]
        /\ view'.cameraPosition = <<0, 0, 15000>>
        /\ view'.cameraTarget = <<0, 0, 0>>
        /\ view'.showLabels = view.showLabels ]_vars

\* C8 witness: a reset that replaced a focus request by the default pose
C8_Witness ==
  /\ last = <<"resetView">>
  /\ selection = initialSelection
  /\ isAnimatingRef
  /\ targetRef = <<0, 0, 15000>>

\* C30: in every state the store actions can reach, clusterB is set only
\* while clusterA is set: B is never chosen without A, and whatever clears A
\* clears B with it.
C30_BOnlyWithA ==
  comparison.clusterB # Null => comparison.clusterA # Null

\* C30 witness: B has just been replaced by a click on a third cluster
C30_Witness ==
  /\ last = <<"setComparisonCluster", G3>>
  /\ comparison = [clusterA |-> G2, clusterB |-> G3]
  /\ selection.selectedCluster = G3

----------------------------------------------------------------------------
\* Properties of the comparison popup

\* C29 as stated: whenever the popup is visible and shows a comparison result
\* or an error, that result or error was produced by the request for the
\* pair (A, B) chosen now.
C29_ShowsCurrentPairOnly ==
  /\ ShownData # Null => ShownData = PairKey(comparison)
  /\ ShownError # Null => ShownError = PairKey(comparison)

====
